---- MODULE Spec2Model ----
(***************************************************************************)
(* Contract risk analyser: the LLM-response normaliser of src/analyzer.py  *)
(* (analyze_contract_with_gemini), the text extractor of src/parser.py     *)
(* (extract_text_from_pdf) and the script of src/app.py with its temporary *)
(* file.                                                                   *)
(*                                                                         *)
(* Python text is modelled as a sequence of one-character strings, so that *)
(* slicing, strip(), startswith(), the "in" substring test and json.loads  *)
(* work on characters as they do in the code.                              *)
(***************************************************************************)
EXTENDS Integers, Sequences, FiniteSets, TLC

VARIABLES
    pc,            \* position of the analyze_contract_with_gemini invocation
    mock,          \* what the remote model was set up to do (the test's mock)
    response_text, \* analyzer.py local: response_text
    final_data,    \* analyzer.py local: final_data_for_pydantic
    outcome,       \* what the invocation gave its caller: a value or an exception
    calls,         \* number of generate_content calls of this invocation
    ppc,           \* position of the extract_text_from_pdf invocation
    pdf,           \* the file and library behaviour extract_text_from_pdf meets
    ocr_called,    \* whether extract_text_from_image was called
    pdf_outcome,   \* what extract_text_from_pdf gave its caller
    fs,            \* the working directory of app.py: temp_contract.<ext> by <ext>
    sess           \* the run of the app.py script in each browser session

avars == <<pc, mock, response_text, final_data, outcome, calls>>
pvars == <<ppc, pdf, ocr_called, pdf_outcome>>
appvars == <<fs, sess>>
vars == <<pc, mock, response_text, final_data, outcome, calls,
          ppc, pdf, ocr_called, pdf_outcome, fs, sess>>

----------------------------------------------------------------------------
(* Bounds of the model.                                                    *)

\* longest risks list a mocked response carries
MaxRisks == 2
\* most pages of a PDF
MaxPages == 2
\* most result blocks PaddleOCR returns
MaxOcrResults == 1

----------------------------------------------------------------------------
(* Python str operations.                                                  *)

\* the grave accent U+0060 of a markdown fence, which a TLA+ string cannot hold
BQ == "U+0060"

\* characters str.strip() removes
Whitespace == {" ", "\n", "\t", "\r"}

RECURSIVE LStrip(_)
LStrip(s) ==
    IF s # <<>> /\ Head(s) \in Whitespace THEN LStrip(Tail(s)) ELSE s

RECURSIVE RStrip(_)
RStrip(s) ==
    IF s # <<>> /\ s[Len(s)] \in Whitespace
    THEN RStrip(SubSeq(s, 1, Len(s) - 1)) ELSE s

\* s.strip()
Strip(s) == RStrip(LStrip(s))

\* s.startswith(p)
StartsWith(s, p) == Len(s) >= Len(p) /\ SubSeq(s, 1, Len(p)) = p

\* s.endswith(p)
EndsWith(s, p) ==
    Len(s) >= Len(p) /\ SubSeq(s, Len(s) - Len(p) + 1, Len(s)) = p

\* s[n:]
DropFirst(s, n) == SubSeq(s, n + 1, Len(s))

\* s[:-n], for n > 0
DropLast(s, n) == SubSeq(s, 1, Len(s) - n)

\* s[:n]
TakeFirst(s, n) == SubSeq(s, 1, IF Len(s) < n THEN Len(s) ELSE n)

\* sub in s
Contains(s, sub) ==
    \E i \in 0..(Len(s) - Len(sub)) : SubSeq(s, i + 1, i + Len(sub)) = sub

RECURSIVE Concat(_)
\* "".join(parts)
Concat(parts) ==
    IF parts = <<>> THEN <<>> ELSE Head(parts) \o Concat(Tail(parts))

RECURSIVE Join(_, _)
\* sep.join(parts)
Join(sep, parts) ==
    IF parts = <<>> THEN <<>>
    ELSE IF Len(parts) = 1 THEN parts[1]
    ELSE parts[1] \o sep \o Join(sep, Tail(parts))

Digit(n) == <<"0", "1", "2", "3", "4", "5", "6", "7", "8", "9">>[n + 1]

RECURSIVE IntStr(_)
\* str(n)
IntStr(n) ==
    IF n < 0 THEN <<"-">> \o IntStr(0 - n)
    ELSE IF n < 10 THEN <<Digit(n)>>
    ELSE IntStr(n \div 10) \o <<Digit(n % 10)>>

----------------------------------------------------------------------------
(* Python values: a tag t and a payload v.  A dict keeps its items in      *)
(* insertion order as a sequence of [k, val].                              *)

PyNone == [t |-> "NoneType", v |-> <<>>]
PyBool(b) == [t |-> "bool", v |-> b]
PyInt(n) == [t |-> "int", v |-> n]
PyStr(s) == [t |-> "str", v |-> s]
PyList(xs) == [t |-> "list", v |-> xs]
PyDict(items) == [t |-> "dict", v |-> items]

IsDict(x) == x.t = "dict"
IsList(x) == x.t = "list"
IsStr(x) == x.t = "str"

\* k in d
HasKey(d, k) == \E i \in 1..Len(d.v) : d.v[i].k = k

\* d[k], for k in d
GetKey(d, k) == d.v[CHOOSE i \in 1..Len(d.v) : d.v[i].k = k].val

\* d[k] = x on the item sequence: a repeated key keeps its place, takes the new value
SetItem(items, k, x) ==
    IF \E i \in 1..Len(items) : items[i].k = k
    THEN [i \in 1..Len(items) |->
            IF items[i].k = k THEN [k |-> k, val |-> x] ELSE items[i]]
    ELSE Append(items, [k |-> k, val |-> x])

----------------------------------------------------------------------------
(* Text constants of the code.                                             *)

K_risks == <<"r","i","s","k","s">>
K_risk_type == <<"r","i","s","k","_","t","y","p","e">>
K_clause_text == <<"c","l","a","u","s","e","_","t","e","x","t">>
K_explanation == <<"e","x","p","l","a","n","a","t","i","o","n">>
K_remediation_suggestion == <<"r","e","m","e","d","i","a","t","i","o","n","_","s","u","g","g","e","s","t","i","o","n">>

FENCE_JSON == <<BQ,BQ,BQ,"j","s","o","n">>
FENCE == <<BQ,BQ,BQ>>

MARK_API_KEY == <<"A","P","I"," ","k","e","y"," ","n","o","t"," ","v","a","l","i","d">>
MARK_UNAUTHENTICATED == <<"U","N","A","U","T","H","E","N","T","I","C","A","T","E","D">>
MARK_VALIDATION == <<"v","a","l","i","d","a","t","i","o","n"," ","e","r","r","o","r"," ","f","o","r"," ","C","o","n","t","r","a","c","t","A","n","a","l","y","s","y","s">>

MSG_INVALID_KEY == <<"I","n","v","a","l","i","d"," ","o","r"," ","m","i","s","s","i","n","g"," ","G","o","o","g","l","e"," ","A","I"," ","A","P","I"," ","k","e","y",".">>
MSG_SCHEMA_PREFIX ==
    <<"P","y","d","a","n","t","i","c"," ","v","a","l","i","d","a","t","i","o","n"," ","e","r","r","o","r",":"," ","J","S","O","N"," ","s","t","r","u","c","t","u","r","e"," ","d","o","e","s"," ","n","o","t"," ","m","a","t","c","h"," ","e","x","p","e","c","t","e","d"," ","s","c","h","e","m","a","."," ">>
MSG_ERROR_DURING == <<"E","r","r","o","r"," ","d","u","r","i","n","g"," ","a","n","a","l","y","s","i","s",":"," ">>
MSG_FAILED_PREFIX ==
    <<"F","a","i","l","e","d"," ","t","o"," ","a","n","a","l","y","z","e"," ","L","L","M"," ","r","e","s","p","o","n","s","e","."," ","T","h","e"," ","m","o","d","e","l"," ","d","i","d"," ","n","o","t"," ","r","e","t","u","r","n"," ","v","a","l","i","d"," ","J","S","O","N","."," ","E","r","r","o","r",":"," ">>
MSG_FAILED_PHRASE == <<"F","a","i","l","e","d"," ","t","o"," ","a","n","a","l","y","z","e"," ","L","L","M"," ","r","e","s","p","o","n","s","e">>
MSG_RAW_START == <<"R","a","w"," ","R","e","s","p","o","n","s","e"," ","S","t","a","r","t",":"," ">>
MSG_DOTS == <<".",".",".">>
MSG_NA == <<"N","/","A">>
MSG_TRY_AGAIN == <<"T","r","y"," ","a","g","a","i","n"," ","o","r"," ","u","s","e"," ","a"," ","'","P","r","o","'"," ","m","o","d","e","l",".">>
MSG_VERIFY ==
    <<"V","e","r","i","f","y"," ","A","P","I"," ","k","e","y"," ","a","n","d"," ","c","o","n","n","e","c","t","i","o","n","."," ","I","f"," ","L","L","M"," ","f","a","i","l","s",","," ","t","r","y"," ","a"," ","m","o","r","e"," ","r","o","b","u","s","t"," ","m","o","d","e","l"," ","(","1",".","5"," ","P","r","o",")",".">>
RT_JSON_DECODE == <<"A","n","a","l","y","s","i","s"," ","E","r","r","o","r"," ","(","J","S","O","N"," ","D","e","c","o","d","e",")">>
RT_SYSTEM == <<"S","y","s","t","e","m","/","V","a","l","i","d","a","t","i","o","n"," ","E","r","r","o","r">>

\* response_text[:100]
RawExcerptLen == 100

----------------------------------------------------------------------------
(* json.dumps, as the tests use it to build the mocked response text.      *)

EscapeChar(c) ==
    IF c = "\"" THEN <<"\\", "\"">>
    ELSE IF c = "\\" THEN <<"\\", "\\">>
    ELSE IF c = "\n" THEN <<"\\", "n">>
    ELSE IF c = "\t" THEN <<"\\", "t">>
    ELSE IF c = "\r" THEN <<"\\", "r">>
    ELSE <<c>>

DumpsStr(s) ==
    <<"\"">> \o Concat([i \in 1..Len(s) |-> EscapeChar(s[i])]) \o <<"\"">>

RECURSIVE Dumps(_)
Dumps(x) ==
    IF x.t = "NoneType" THEN <<"n","u","l","l">>
    ELSE IF x.t = "bool" THEN (IF x.v THEN <<"t","r","u","e">> ELSE <<"f","a","l","s","e">>)
    ELSE IF x.t = "int" THEN IntStr(x.v)
    ELSE IF x.t = "str" THEN DumpsStr(x.v)
    ELSE IF x.t = "list"
    THEN <<"[">> \o Join(<<","," ">>, [i \in 1..Len(x.v) |-> Dumps(x.v[i])]) \o <<"]">>
    ELSE <<"{">>
         \o Join(<<","," ">>, [i \in 1..Len(x.v) |->
                            DumpsStr(x.v[i].k) \o <<":"," ">> \o Dumps(x.v[i].val)])
         \o <<"}">>

----------------------------------------------------------------------------
(* json.loads: the scanner of Python's json.decoder, on objects, arrays,   *)
(* strings, integers and the literals null, true and false.  A position is *)
(* the 1-based index of the next character; Python's is one less.          *)

JsonWs == {" ", "\t", "\n", "\r"}
Digits == {"0", "1", "2", "3", "4", "5", "6", "7", "8", "9"}
DigitVal(c) == CHOOSE n \in 0..9 : Digit(n) = c

E_EXPECTING_VALUE == <<"E","x","p","e","c","t","i","n","g"," ","v","a","l","u","e">>
E_EXTRA_DATA == <<"E","x","t","r","a"," ","d","a","t","a">>
E_PROPERTY_NAME == <<"E","x","p","e","c","t","i","n","g"," ","p","r","o","p","e","r","t","y"," ","n","a","m","e"," ","e","n","c","l","o","s","e","d"," ","i","n"," ","d","o","u","b","l","e"," ","q","u","o","t","e","s">>
E_COLON == <<"E","x","p","e","c","t","i","n","g"," ","'",":","'"," ","d","e","l","i","m","i","t","e","r">>
E_COMMA == <<"E","x","p","e","c","t","i","n","g"," ","'",",","'"," ","d","e","l","i","m","i","t","e","r">>
E_UNTERMINATED == <<"U","n","t","e","r","m","i","n","a","t","e","d"," ","s","t","r","i","n","g"," ","s","t","a","r","t","i","n","g"," ","a","t">>
E_CONTROL == <<"I","n","v","a","l","i","d"," ","c","o","n","t","r","o","l"," ","c","h","a","r","a","c","t","e","r"," ","a","t">>
E_ESCAPE == <<"I","n","v","a","l","i","d"," ","\\","\\","e","s","c","a","p","e">>

Scanned(x, i) == [ok |-> TRUE, val |-> x, pos |-> i, msg |-> <<>>]
ScanError(m, i) == [ok |-> FALSE, val |-> PyNone, pos |-> i, msg |-> m]

RECURSIVE SkipWs(_, _)
SkipWs(s, i) == IF i <= Len(s) /\ s[i] \in JsonWs THEN SkipWs(s, i + 1) ELSE i

At(s, i) == IF i <= Len(s) THEN s[i] ELSE ""

Unescape(c) ==
    IF c = "n" THEN "\n" ELSE IF c = "t" THEN "\t" ELSE IF c = "r" THEN "\r" ELSE c

RECURSIVE ScanString(_, _, _, _)
\* py_scanstring: begin is the opening quote, i the next character to read
ScanString(s, begin, i, acc) ==
    IF i > Len(s) THEN ScanError(E_UNTERMINATED, begin)
    ELSE IF s[i] = "\"" THEN Scanned(PyStr(acc), i + 1)
    ELSE IF s[i] = "\\"
    THEN IF i + 1 > Len(s) THEN ScanError(E_UNTERMINATED, begin)
         ELSE IF s[i + 1] \in {"\"", "\\", "/", "n", "t", "r"}
         THEN ScanString(s, begin, i + 2, Append(acc, Unescape(s[i + 1])))
         ELSE ScanError(E_ESCAPE, i)
    ELSE IF s[i] \in {"\n", "\t", "\r"} THEN ScanError(E_CONTROL, i)
    ELSE ScanString(s, begin, i + 1, Append(acc, s[i]))

RECURSIVE ScanDigits(_, _, _)
ScanDigits(s, i, n) ==
    IF i <= Len(s) /\ s[i] \in Digits
    THEN ScanDigits(s, i + 1, 10 * n + DigitVal(s[i]))
    ELSE [n |-> n, pos |-> i]

\* NUMBER_RE, integer part: -?(0|[1-9][0-9]*)
ScanNumber(s, i) ==
    LET neg == At(s, i) = "-"
        j == IF neg THEN i + 1 ELSE i
    IN  IF At(s, j) = "0" THEN Scanned(PyInt(0), j + 1)
        ELSE IF At(s, j) \in Digits
        THEN LET d == ScanDigits(s, j, 0)
             IN  Scanned(PyInt(IF neg THEN 0 - d.n ELSE d.n), d.pos)
        ELSE ScanError(E_EXPECTING_VALUE, i)

RECURSIVE Scan(_, _, _, _)

\* JSONObject: e is at the character after a member
ObjectNext(s, e, items) ==
    IF At(s, e) = "}" THEN Scanned(PyDict(items), e + 1)
    ELSE IF At(s, e) # "," THEN ScanError(E_COMMA, e)
    ELSE IF At(s, SkipWs(s, e + 1)) # "\""
    THEN ScanError(E_PROPERTY_NAME, SkipWs(s, e + 1))
    ELSE Scan("members", s, SkipWs(s, e + 1), items)

\* JSONObject: val is the scan of the value of key k
ObjectValue(s, items, k, val) ==
    IF ~val.ok THEN val
    ELSE ObjectNext(s, SkipWs(s, val.pos), SetItem(items, k, val.val))

\* JSONObject: key is the scan of a key, c the character after it
ObjectColon(s, items, key, c) ==
    IF At(s, c) # ":" THEN ScanError(E_COLON, c)
    ELSE ObjectValue(s, items, key.val.v, Scan("value", s, SkipWs(s, c + 1), <<>>))

\* JSONObject: key is the scan of a key
ObjectMember(s, items, key) ==
    IF ~key.ok THEN key ELSE ObjectColon(s, items, key, SkipWs(s, key.pos))

\* JSONArray: e is at the character after the elements xs
ArrayNext(s, e, xs) ==
    IF At(s, e) = "]" THEN Scanned(PyList(xs), e + 1)
    ELSE IF At(s, e) # "," THEN ScanError(E_COMMA, e)
    ELSE Scan("elements", s, SkipWs(s, e + 1), xs)

\* JSONArray: val is the scan of an element
ArrayElement(s, xs, val) ==
    IF ~val.ok THEN val ELSE ArrayNext(s, SkipWs(s, val.pos), Append(xs, val.val))

\* JSONObject after the brace, q at the next character
ObjectStart(s, q) ==
    IF At(s, q) = "}" THEN Scanned(PyDict(<<>>), q + 1)
    ELSE IF At(s, q) # "\"" THEN ScanError(E_PROPERTY_NAME, q)
    ELSE Scan("members", s, q, <<>>)

\* JSONArray after the bracket, q at the next character
ArrayStart(s, q) ==
    IF At(s, q) = "]" THEN Scanned(PyList(<<>>), q + 1)
    ELSE Scan("elements", s, q, <<>>)

\* the literals null, true and false
IsLiteral(s, i, word) == i + Len(word) - 1 <= Len(s) /\ SubSeq(s, i, i + Len(word) - 1) = word

\* The scanner, one operator for its three mutually recursive parts:
\*   "value"    scan_once at i (StopIteration is the "Expecting value" error);
\*   "members"  JSONObject, i at the quote of a key, acc the items so far;
\*   "elements" JSONArray, i at an element, acc the elements so far.
Scan(part, s, i, acc) ==
    IF part = "members" THEN ObjectMember(s, acc, ScanString(s, i, i + 1, <<>>))
    ELSE IF part = "elements" THEN ArrayElement(s, acc, Scan("value", s, i, <<>>))
    ELSE IF At(s, i) = "\"" THEN ScanString(s, i, i + 1, <<>>)
    ELSE IF At(s, i) = "{" THEN ObjectStart(s, SkipWs(s, i + 1))
    ELSE IF At(s, i) = "[" THEN ArrayStart(s, SkipWs(s, i + 1))
    ELSE IF IsLiteral(s, i, <<"n","u","l","l">>) THEN Scanned(PyNone, i + 4)
    ELSE IF IsLiteral(s, i, <<"t","r","u","e">>) THEN Scanned(PyBool(TRUE), i + 4)
    ELSE IF IsLiteral(s, i, <<"f","a","l","s","e">>) THEN Scanned(PyBool(FALSE), i + 5)
    ELSE ScanNumber(s, i)

\* scan_once(s, idx)
ScanOnce(s, i) == Scan("value", s, i, <<>>)

\* number of newlines before position i
NewlinesBefore(s, i) == Cardinality({j \in 1..(i - 1) : j <= Len(s) /\ s[j] = "\n"})

\* index of the last newline before position i, 0 when there is none
LastNewlineBefore(s, i) ==
    LET nl == {j \in 1..(i - 1) : j <= Len(s) /\ s[j] = "\n"}
    IN  IF nl = {} THEN 0 ELSE CHOOSE j \in nl : \A k \in nl : k <= j

\* str(JSONDecodeError(msg, doc, pos)): "msg: line L column C (char P)"
JSONDecodeErrorStr(msg, s, i) ==
    msg \o <<":"," ","l","i","n","e"," ">> \o IntStr(NewlinesBefore(s, i) + 1)
        \o <<" ","c","o","l","u","m","n"," ">> \o IntStr(i - LastNewlineBefore(s, i))
        \o <<" ","(","c","h","a","r"," ">> \o IntStr(i - 1) \o <<")">>

\* json.loads(s): a value, or the JSONDecodeError's message
Loads(s) ==
    LET r == ScanOnce(s, SkipWs(s, 1))
    IN  IF ~r.ok THEN [ok |-> FALSE, val |-> PyNone, msg |-> JSONDecodeErrorStr(r.msg, s, r.pos)]
        ELSE
        LET e == SkipWs(s, r.pos)
        IN  IF e # Len(s) + 1
            THEN [ok |-> FALSE, val |-> PyNone, msg |-> JSONDecodeErrorStr(E_EXTRA_DATA, s, e)]
            ELSE [ok |-> TRUE, val |-> r.val, msg |-> <<>>]

----------------------------------------------------------------------------
(* repr() of a Python value, as pydantic prints it in input_value=.        *)

ReprStr(s) ==
    LET has(c) == \E i \in 1..Len(s) : s[i] = c
        q == IF has("'") /\ ~has("\"") THEN "\"" ELSE "'"
        esc(c) == IF c = "\\" THEN <<"\\", "\\">>
                  ELSE IF c = "\n" THEN <<"\\", "n">>
                  ELSE IF c = "\t" THEN <<"\\", "t">>
                  ELSE IF c = "\r" THEN <<"\\", "r">>
                  ELSE IF c = q THEN <<"\\", c>>
                  ELSE <<c>>
    IN  <<q>> \o Concat([i \in 1..Len(s) |-> esc(s[i])]) \o <<q>>

RECURSIVE Repr(_)
Repr(x) ==
    IF x.t = "NoneType" THEN <<"N","o","n","e">>
    ELSE IF x.t = "bool" THEN (IF x.v THEN <<"T","r","u","e">> ELSE <<"F","a","l","s","e">>)
    ELSE IF x.t = "int" THEN IntStr(x.v)
    ELSE IF x.t = "str" THEN ReprStr(x.v)
    ELSE IF x.t = "list"
    THEN <<"[">> \o Join(<<","," ">>, [i \in 1..Len(x.v) |-> Repr(x.v[i])]) \o <<"]">>
    ELSE <<"{">>
         \o Join(<<","," ">>, [i \in 1..Len(x.v) |->
                            ReprStr(x.v[i].k) \o <<":"," ">> \o Repr(x.v[i].val)])
         \o <<"}">>

\* pydantic shortens an input_value longer than 50 characters
TruncatedRepr(x) ==
    LET r == Repr(x)
    IN  IF Len(r) > 50
        THEN SubSeq(r, 1, 25) \o <<".",".",".">> \o SubSeq(r, Len(r) - 23, Len(r))
        ELSE r

----------------------------------------------------------------------------
(* models.py: ContractRisk and ContractAnalysys, validated by pydantic.    *)

\* type(x).__name__
TypeName(x) ==
    IF x.t = "dict" THEN <<"d","i","c","t">>
    ELSE IF x.t = "list" THEN <<"l","i","s","t">>
    ELSE IF x.t = "str" THEN <<"s","t","r">>
    ELSE IF x.t = "int" THEN <<"i","n","t">>
    ELSE IF x.t = "bool" THEN <<"b","o","o","l">>
    ELSE <<"N","o","n","e","T","y","p","e">>

RiskFields ==
    <<K_risk_type, K_clause_text, K_explanation, K_remediation_suggestion>>

V_FIELD_REQUIRED == <<"F","i","e","l","d"," ","r","e","q","u","i","r","e","d">>
V_VALID_STRING == <<"I","n","p","u","t"," ","s","h","o","u","l","d"," ","b","e"," ","a"," ","v","a","l","i","d"," ","s","t","r","i","n","g">>
V_VALID_LIST == <<"I","n","p","u","t"," ","s","h","o","u","l","d"," ","b","e"," ","a"," ","v","a","l","i","d"," ","l","i","s","t">>
V_VALID_MODEL == <<"I","n","p","u","t"," ","s","h","o","u","l","d"," ","b","e"," ","a"," ","v","a","l","i","d"," ","d","i","c","t","i","o","n","a","r","y"," ","o","r"," ","i","n","s","t","a","n","c","e"," ","o","f"," ","C","o","n","t","r","a","c","t","R","i","s","k">>

ValidationIssue(loc, text, type, input) ==
    [loc |-> loc, text |-> text, type |-> type, input |-> input]

\* one required str field of ContractRisk
FieldIssues(entry, loc, f) ==
    IF ~HasKey(entry, f)
    THEN <<ValidationIssue(loc \o <<".">> \o f, V_FIELD_REQUIRED, <<"m","i","s","s","i","n","g">>, entry)>>
    ELSE IF ~IsStr(GetKey(entry, f))
    THEN <<ValidationIssue(loc \o <<".">> \o f, V_VALID_STRING, <<"s","t","r","i","n","g","_","t","y","p","e">>,
                           GetKey(entry, f))>>
    ELSE <<>>

\* ContractRisk: four required str fields; other keys are ignored
RiskIssues(entry, loc) ==
    IF ~IsDict(entry)
    THEN <<ValidationIssue(loc, V_VALID_MODEL, <<"m","o","d","e","l","_","t","y","p","e">>, entry)>>
    ELSE Concat([j \in 1..Len(RiskFields) |-> FieldIssues(entry, loc, RiskFields[j])])

\* ContractAnalysys: risks: List[ContractRisk], required
AnalysisIssues(kwargs) ==
    IF ~HasKey(kwargs, K_risks)
    THEN <<ValidationIssue(K_risks, V_FIELD_REQUIRED, <<"m","i","s","s","i","n","g">>, kwargs)>>
    ELSE IF ~IsList(GetKey(kwargs, K_risks))
    THEN <<ValidationIssue(K_risks, V_VALID_LIST, <<"l","i","s","t","_","t","y","p","e">>, GetKey(kwargs, K_risks))>>
    ELSE LET xs == GetKey(kwargs, K_risks).v
         IN  Concat([i \in 1..Len(xs) |->
                        RiskIssues(xs[i], K_risks \o <<".">> \o IntStr(i - 1))])

\* str(ValidationError): the count line, then one entry per issue (the
\* "For further information visit ..." line of each entry is left out)
ValidationErrorStr(issues) ==
    IntStr(Len(issues)) \o <<" ","v","a","l","i","d","a","t","i","o","n"," ","e","r","r","o","r">>
        \o (IF Len(issues) # 1 THEN <<"s">> ELSE <<>>)
        \o <<" ","f","o","r"," ","C","o","n","t","r","a","c","t","A","n","a","l","y","s","y","s">>
        \o Concat([i \in 1..Len(issues) |->
                     <<"\n">> \o issues[i].loc \o <<"\n"," "," ">> \o issues[i].text
                     \o <<" ","[","t","y","p","e","=">> \o issues[i].type
                     \o <<","," ","i","n","p","u","t","_","v","a","l","u","e","=">> \o TruncatedRepr(issues[i].input)
                     \o <<","," ","i","n","p","u","t","_","t","y","p","e","=">>
                     \o TypeName(issues[i].input)
                     \o <<"]">>])

\* ContractRisk(**entry), for an entry without issues
ContractRisk(rt, ct, ex, rs) ==
    [risk_type |-> rt, clause_text |-> ct, explanation |-> ex,
     remediation_suggestion |-> rs]

\* RiskOf with clause_text and explanation taken from each other's key
RiskOf_Swapped(entry) ==
    ContractRisk(GetKey(entry, K_risk_type).v, GetKey(entry, K_explanation).v,
                 GetKey(entry, K_clause_text).v,
                 GetKey(entry, K_remediation_suggestion).v)

RiskOf(entry) ==
    ContractRisk(GetKey(entry, K_risk_type).v, GetKey(entry, K_clause_text).v,
                 GetKey(entry, K_explanation).v,
                 GetKey(entry, K_remediation_suggestion).v)

\* ContractAnalysys(risks=[...])
ContractAnalysys(risks) == [risks |-> risks]

Returned(x) == [kind |-> "return", value |-> x]
Raised(cls, msg) == [kind |-> "raise", cls |-> cls, msg |-> msg]

E_NOT_MAPPING == <<"m","o","d","e","l","s",".","C","o","n","t","r","a","c","t","A","n","a","l","y","s","y","s","(",")"," ","a","r","g","u","m","e","n","t"," ","a","f","t","e","r"," ","*","*"," ","m","u","s","t"," ","b","e"," ","a"," ","m","a","p","p","i","n","g",","," ","n","o","t"," ">>
E_NONE_STRIP == <<"'","N","o","n","e","T","y","p","e","'"," ","o","b","j","e","c","t"," ","h","a","s"," ","n","o"," ","a","t","t","r","i","b","u","t","e"," ","'","s","t","r","i","p","'">>
E_NO_API_KEY == <<"M","i","s","s","i","n","g"," ","k","e","y"," ","i","n","p","u","t","s"," ","a","r","g","u","m","e","n","t","!">>

\* analyzer.py line 88: ContractAnalysys(**final_data_for_pydantic)
Construct(final) ==
    IF ~IsDict(final) THEN Raised("TypeError", E_NOT_MAPPING \o TypeName(final))
    ELSE LET issues == AnalysisIssues(final)
         IN  IF issues # <<>>
             THEN Raised("ValidationError", ValidationErrorStr(issues))
             ELSE LET xs == GetKey(final, K_risks).v
                  IN  Returned(ContractAnalysys([i \in 1..Len(xs) |-> RiskOf(xs[i])]))

----------------------------------------------------------------------------
(* analyzer.py: analyze_contract_with_gemini.                              *)

\* CleanResponse that knows the untagged fence only
CleanResponse_NoTag(text) ==
    LET t0 == Strip(text)
        t2 == IF StartsWith(t0, FENCE) THEN DropFirst(t0, 3) ELSE t0
        t3 == IF EndsWith(t2, FENCE) THEN DropLast(t2, 3) ELSE t2
    IN  Strip(t3)

\* lines 57-65: strip, drop the fences, strip
CleanResponse(text) ==
    LET t0 == Strip(text)
        t1 == IF StartsWith(t0, FENCE_JSON) THEN DropFirst(t0, 7) ELSE t0
        t2 == IF StartsWith(t1, FENCE) THEN DropFirst(t1, 3) ELSE t1
        t3 == IF EndsWith(t2, FENCE) THEN DropLast(t2, 3) ELSE t2
    IN  Strip(t3)

\* Unwrap that takes a key called 'risks' for the root key, never for an envelope
Unwrap_NamedEnvelope(parsed_json) ==
    IF Len(parsed_json.v) = 1 /\ parsed_json.v[1].k # K_risks
    THEN LET inner == parsed_json.v[1].val
         IN  IF IsDict(inner) /\ HasKey(inner, K_risks) THEN inner ELSE parsed_json
    ELSE parsed_json

\* lines 73-76: a single wrapping key around a mapping that holds 'risks'
Unwrap(parsed_json) ==
    IF Len(parsed_json.v) = 1
    THEN LET root_key == parsed_json.v[1].k
             inner == GetKey(parsed_json, root_key)
         IN  IF IsDict(inner) /\ HasKey(inner, K_risks) THEN inner ELSE parsed_json
    ELSE parsed_json

\* KeepRisks that leaves the sibling keys in place
KeepRisks_KeepAll(data) == data

\* lines 79-85: keep only 'risks'; the elif is reached with a mapping only
KeepRisks(data) ==
    IF HasKey(data, K_risks) /\ IsList(GetKey(data, K_risks))
    THEN PyDict(<<[k |-> K_risks, val |-> GetKey(data, K_risks)]>>)
    ELSE IF IsList(data)
    THEN PyDict(<<[k |-> K_risks, val |-> data]>>)
    ELSE data

\* lines 69-85: final_data_for_pydantic
Normalize(parsed_json) ==
    IF IsDict(parsed_json) THEN KeepRisks(Unwrap(parsed_json)) ELSE parsed_json

\* lines 46-90, the try block: the locals it leaves and how it ends
TryBlock(m) ==
    IF m.kind = "raise"
    THEN [response_text |-> <<>>, final_data |-> PyNone, end |-> Raised(m.cls, m.msg)]
    ELSE IF m.kind = "no_text"
    THEN [response_text |-> <<>>, final_data |-> PyNone,
          end |-> Raised("AttributeError", E_NONE_STRIP)]
    ELSE LET text == CleanResponse(m.text)
             parsed == Loads(text)
         IN  IF ~parsed.ok
             THEN [response_text |-> text, final_data |-> PyNone,
                   end |-> Raised("JSONDecodeError", parsed.msg)]
             ELSE LET final == Normalize(parsed.val)
                  IN  [response_text |-> text, final_data |-> final,
                       end |-> Construct(final)]

\* lines 92-100: except json.JSONDecodeError
DecodeErrorResult(text, msg) ==
    ContractAnalysys(<<ContractRisk(
        RT_JSON_DECODE,
        MSG_RAW_START \o TakeFirst(text, RawExcerptLen) \o MSG_DOTS,
        MSG_FAILED_PREFIX \o msg,
        MSG_TRY_AGAIN)>>)

\* ErrorExplanation that tests the validation marker first
ErrorExplanation_ValidationFirst(msg) ==
    IF Contains(msg, MARK_VALIDATION)
    THEN MSG_SCHEMA_PREFIX \o msg
    ELSE IF Contains(msg, MARK_API_KEY) \/ Contains(msg, MARK_UNAUTHENTICATED)
    THEN MSG_INVALID_KEY
    ELSE msg

\* lines 103-107: the explanation chosen from str(e)
ErrorExplanation(msg) ==
    IF Contains(msg, MARK_API_KEY) \/ Contains(msg, MARK_UNAUTHENTICATED)
    THEN MSG_INVALID_KEY
    ELSE IF Contains(msg, MARK_VALIDATION)
    THEN MSG_SCHEMA_PREFIX \o msg
    ELSE msg

\* lines 102-116: except Exception
SystemErrorResult(msg) ==
    ContractAnalysys(<<ContractRisk(
        RT_SYSTEM, MSG_NA, MSG_ERROR_DURING \o ErrorExplanation(msg), MSG_VERIFY)>>)

\* TryStatement without the json.JSONDecodeError handler
TryStatement_OneHandler(m) ==
    LET t == TryBlock(m)
    IN  [response_text |-> t.response_text, final_data |-> t.final_data,
         end |-> IF t.end.kind = "return" THEN t.end
                 ELSE Returned(SystemErrorResult(t.end.msg))]

\* lines 45-116: the try statement with its two handlers
TryStatement(m) ==
    LET t == TryBlock(m)
    IN  [response_text |-> t.response_text, final_data |-> t.final_data,
         end |-> IF t.end.kind = "return" THEN t.end
                 ELSE IF t.end.cls = "JSONDecodeError"
                 THEN Returned(DecodeErrorResult(t.response_text, t.end.msg))
                 ELSE Returned(SystemErrorResult(t.end.msg))]

----------------------------------------------------------------------------
(* What the remote model may answer: the payloads the mocked               *)
(* generate_content is set up with, as tests/test_analyzer.py does.        *)

Item(k, x) == [k |-> k, val |-> x]

\* a finding with the four string fields
Finding(rt, ct, ex, rs) ==
    PyDict(<<Item(K_risk_type, PyStr(rt)), Item(K_clause_text, PyStr(ct)),
             Item(K_explanation, PyStr(ex)), Item(K_remediation_suggestion, PyStr(rs))>>)

\* the two well-formed findings, as the ContractRisk values they stand for
R_PLAIN ==
    ContractRisk(<<"U","n","c","a","p","p","e","d"," ","L","i","a","b","i","l","i","t","y">>, <<"a","n","y"," ","a","n","d"," ","a","l","l"," ","d","a","m","a","g","e","s">>, <<"N","o"," ","c","a","p",".">>, <<"A","d","d"," ","a"," ","c","a","p",".">>)
\* quotes, a newline and an empty field in the values
R_EXTRA == ContractRisk(<<"V","a","g","u","e"," ","\"","t","e","r","m","s","\"">>, <<"a","\n","b">>, <<>>, <<"i","t","'","s"," ","f","i","n","e">>)

F_PLAIN ==
    Finding(R_PLAIN.risk_type, R_PLAIN.clause_text, R_PLAIN.explanation,
            R_PLAIN.remediation_suggestion)
\* a well-formed finding with a fifth key, its fields in another order
F_EXTRA ==
    PyDict(<<Item(K_clause_text, PyStr(R_EXTRA.clause_text)), Item(<<"s","e","v","e","r","i","t","y">>, PyInt(3)),
             Item(K_risk_type, PyStr(R_EXTRA.risk_type)),
             Item(K_explanation, PyStr(R_EXTRA.explanation)),
             Item(K_remediation_suggestion, PyStr(R_EXTRA.remediation_suggestion))>>)
\* remediation_suggestion missing
F_MISSING ==
    PyDict(<<Item(K_risk_type, PyStr(<<"T">>)), Item(K_clause_text, PyStr(<<"c">>)),
             Item(K_explanation, PyStr(<<"e">>))>>)
\* risk_type is a number
F_NUMBER ==
    PyDict(<<Item(K_risk_type, PyInt(7)), Item(K_clause_text, PyStr(<<"c">>)),
             Item(K_explanation, PyStr(<<"e">>)), Item(K_remediation_suggestion, PyStr(<<"r">>))>>)
\* an entry that is no mapping
F_TEXT == PyStr(<<"U","N","A","U","T","H","E","N","T","I","C","A","T","E","D">>)

Entries == <<F_PLAIN, F_EXTRA, F_MISSING, F_NUMBER, F_TEXT>>

\* the risks lists: every sequence of at most MaxRisks entries
RiskLists ==
    UNION {[1..n -> 1..Len(Entries)] : n \in 0..MaxRisks}

ListOf(ix) == PyList([i \in 1..Len(ix) |-> Entries[ix[i]]])

K_envelope == <<"c","o","n","t","r","a","c","t","_","a","n","a","l","y","s","i","s">>
K_summary == <<"s","u","m","m","a","r","y">>
SUMMARY == PyStr(<<"2"," ","r","i","s","k","s">>)

Shapes ==
    {"risks", "sibling", "envelope", "envelope_risks", "envelope_sibling",
     "array", "envelope_and_sibling", "other_key"}

\* the JSON value of a shape around a risks list
Payload(shape, ix) ==
    LET L == ListOf(ix)
        R == PyDict(<<Item(K_risks, L)>>)
    IN  IF shape = "risks" THEN R
        ELSE IF shape = "sibling"
        THEN PyDict(<<Item(K_summary, SUMMARY), Item(K_risks, L), Item(<<"c","o","u","n","t">>, PyInt(Len(ix)))>>)
        ELSE IF shape = "envelope" THEN PyDict(<<Item(K_envelope, R)>>)
        ELSE IF shape = "envelope_risks" THEN PyDict(<<Item(K_risks, R)>>)
        ELSE IF shape = "envelope_sibling"
        THEN PyDict(<<Item(K_envelope, PyDict(<<Item(K_risks, L), Item(K_summary, SUMMARY)>>))>>)
        ELSE IF shape = "array" THEN L
        ELSE IF shape = "envelope_and_sibling"
        THEN PyDict(<<Item(K_envelope, R), Item(K_summary, SUMMARY)>>)
        ELSE PyDict(<<Item(<<"f","i","n","d","i","n","g","s">>, L)>>)

\* JSON values that hold no risks list
OddPayloads ==
    <<PyDict(<<>>),
      PyInt(42),
      PyNone,
      PyStr(<<"A","P","I"," ","k","e","y"," ","n","o","t"," ","v","a","l","i","d">>),
      PyDict(<<Item(K_risks, PyStr(<<"U","N","A","U","T","H","E","N","T","I","C","A","T","E","D">>))>>),
      PyDict(<<Item(K_risks, PyInt(5))>>),
      PyDict(<<Item(K_risks, PyDict(<<Item(K_risks, PyDict(<<Item(K_risks, PyList(<<>>))>>))>>))>>),
      PyDict(<<Item(K_envelope, PyDict(<<Item(K_risks, PyNone)>>))>>)>>

\* texts that are no JSON
BrokenTexts ==
    {<<>>,
     <<"E","R","R","O","R",":"," ","T","h","e"," ","m","o","d","e","l"," ","f","a","i","l","e","d"," ","t","o"," ","g","e","n","e","r","a","t","e"," ","J","S","O","N"," ","o","u","t","p","u","t",".">>,
     <<"{","\"","r","i","s","k","s","\"",":"," ","[">>,
     <<"{","\"","r","i","s","k","s","\"",":"," ","[","]","}"," ","d","o","n","e">>,
     <<"{","'","r","i","s","k","s","'",":"," ","[","]","}">>,
     <<BQ,BQ,BQ,"j","s","o","n">>,
     <<BQ,BQ,BQ," ","j","s","o","n","\n","[","]","\n",BQ,BQ,BQ>>,
     <<"{","\"","r","i","s","k","s","\"",":"," ","[","]",",","}">>,
     [i \in 1..(RawExcerptLen + 5) |-> IF i % 7 = 0 THEN " " ELSE "x"]}

Wraps == {"bare", "json_fence", "fence", "fence_tight", "padded"}

\* the response text around a payload text
Wrap(w, p) ==
    IF w = "bare" THEN p
    ELSE IF w = "json_fence" THEN <<BQ,BQ,BQ,"j","s","o","n","\n">> \o p \o <<"\n",BQ,BQ,BQ>>
    ELSE IF w = "fence" THEN <<BQ,BQ,BQ,"\n">> \o p \o <<"\n",BQ,BQ,BQ>>
    ELSE IF w = "fence_tight" THEN <<" ","\n",BQ,BQ,BQ,"j","s","o","n">> \o p \o <<BQ,BQ,BQ,"\n","\t"," ">>
    ELSE <<" "," ">> \o p \o <<"\r","\n">>

\* messages of the exceptions generate_content raises
ProviderMessages ==
    {<<"4","0","1"," ","U","N","A","U","T","H","E","N","T","I","C","A","T","E","D",":"," ","A","P","I"," ","k","e","y"," ","n","o","t"," ","v","a","l","i","d">>,
     <<"4","0","0"," ","I","N","V","A","L","I","D","_","A","R","G","U","M","E","N","T","."," ","A","P","I"," ","k","e","y"," ","n","o","t"," ","v","a","l","i","d","."," ","P","l","e","a","s","e"," ","p","a","s","s"," ","a"," ","v","a","l","i","d"," ","A","P","I"," ","k","e","y",".">>,
     <<"4","0","1"," ","U","N","A","U","T","H","E","N","T","I","C","A","T","E","D">>,
     <<"1"," ","v","a","l","i","d","a","t","i","o","n"," ","e","r","r","o","r"," ","f","o","r"," ","C","o","n","t","r","a","c","t","A","n","a","l","y","s","y","s",":"," ","U","N","A","U","T","H","E","N","T","I","C","A","T","E","D">>,
     <<"1"," ","v","a","l","i","d","a","t","i","o","n"," ","e","r","r","o","r"," ","f","o","r"," ","C","o","n","t","r","a","c","t","A","n","a","l","y","s","y","s">>,
     <<"4","2","9"," ","R","E","S","O","U","R","C","E","_","E","X","H","A","U","S","T","E","D","."," ","Q","u","o","t","a"," ","e","x","c","e","e","d","e","d",".">>,
     <<"u","n","a","u","t","h","e","n","t","i","c","a","t","e","d">>,
     <<>>}

\* the behaviours of generate_content and response.text
Mocks ==
    {[kind |-> "json", shape |-> s, risks |-> ix, wrap |-> w,
      text |-> Wrap(w, Dumps(Payload(s, ix)))] :
        s \in Shapes, ix \in RiskLists, w \in Wraps}
    \cup {[kind |-> "odd", odd |-> i, wrap |-> w, text |-> Wrap(w, Dumps(OddPayloads[i]))] :
            i \in 1..Len(OddPayloads), w \in Wraps}
    \cup {[kind |-> "broken", text |-> t] : t \in BrokenTexts}
    \cup {[kind |-> "no_text"]}
    \cup {[kind |-> "raise", cls |-> "Exception", msg |-> m] : m \in ProviderMessages}
    \cup {[kind |-> "raise", cls |-> "JSONDecodeError",
           msg |-> JSONDecodeErrorStr(E_EXPECTING_VALUE, <<>>, 1)]}

\* the JSON value a mock serialises
Sent(m) == IF m.kind = "json" THEN Payload(m.shape, m.risks) ELSE OddPayloads[m.odd]

----------------------------------------------------------------------------
(* The invocation, step by step.                                           *)

NotStarted == [kind |-> "pending"]
NoMock == [kind |-> "unset"]

\* line 37: genai.Client(api_key=api_key) succeeds
NewClient ==
    /\ pc = "idle"
    /\ pc' = "call"
    /\ UNCHANGED <<mock, response_text, final_data, outcome, calls>>
    /\ UNCHANGED <<pvars, appvars>>

\* line 37: genai.Client raises (no key given); the call is outside the try
NewClientRaises ==
    /\ pc = "idle"
    /\ pc' = "done"
    /\ outcome' = Raised("ValueError", E_NO_API_KEY)
    /\ UNCHANGED <<mock, response_text, final_data, calls>>
    /\ UNCHANGED <<pvars, appvars>>

\* lines 46-55: client.models.generate_content(...) returns or raises
GenerateContent ==
    /\ pc = "call"
    /\ \E m \in Mocks : mock' = m
    /\ calls' = calls + 1
    /\ pc' = "respond"
    /\ UNCHANGED <<response_text, final_data, outcome>>
    /\ UNCHANGED <<pvars, appvars>>

\* HandleResponse that asks the model again when the answer is no JSON
HandleResponse_Retry ==
    /\ pc = "respond"
    /\ LET t == TryStatement(mock)
       IN  IF TryBlock(mock).end.kind = "raise" /\ TryBlock(mock).end.cls = "JSONDecodeError"
           THEN /\ pc' = "call"
                /\ UNCHANGED <<response_text, final_data, outcome>>
           ELSE /\ response_text' = t.response_text
                /\ final_data' = t.final_data
                /\ outcome' = t.end
                /\ pc' = "done"
    /\ UNCHANGED <<mock, calls>>
    /\ UNCHANGED <<pvars, appvars>>

\* lines 57-116: the rest of the try statement, to the return
HandleResponse ==
    /\ pc = "respond"
    /\ LET t == TryStatement(mock)
       IN  /\ response_text' = t.response_text
           /\ final_data' = t.final_data
           /\ outcome' = t.end
    /\ pc' = "done"
    /\ UNCHANGED <<mock, calls>>
    /\ UNCHANGED <<pvars, appvars>>

\* the caller invokes again
Reinvoke ==
    /\ pc = "done"
    /\ pc' = "idle"
    /\ mock' = NoMock
    /\ response_text' = <<>>
    /\ final_data' = PyNone
    /\ outcome' = NotStarted
    /\ calls' = 0
    /\ UNCHANGED <<pvars, appvars>>

AnalyzerInit ==
    /\ pc = "idle"
    /\ mock = NoMock
    /\ response_text = <<>>
    /\ final_data = PyNone
    /\ outcome = NotStarted
    /\ calls = 0

----------------------------------------------------------------------------
(* parser.py: extract_text_from_pdf and extract_text_from_image.           *)

PDF_PATH == <<"t","e","m","p","_","c","o","n","t","r","a","c","t",".","p","d","f">>
E_PDF_NOT_FOUND == <<"P","D","F"," ","f","i","l","e"," ","n","o","t"," ","f","o","u","n","d",":"," ">>
E_IMAGE_NOT_FOUND == <<"I","m","a","g","e"," ","f","i","l","e"," ","n","o","t"," ","f","o","u","n","d",":"," ">>
E_NO_TEXT == <<"N","o"," ","t","e","x","t"," ","f","o","u","n","d"," ","i","n"," ","t","h","e"," ","P","D","F">>
E_PDF_FAILED == <<"F","a","i","l","e","d"," ","t","o"," ","e","x","t","r","a","c","t"," ","t","e","x","t"," ","f","r","o","m"," ","P","D","F"," ","u","s","i","n","g"," ","P","y","M","u","P","D","F",":"," ">>
E_OCR_FAILED == <<"F","a","i","l","e","d"," ","t","o"," ","e","x","t","r","a","c","t"," ","t","e","x","t"," ","f","r","o","m"," ","i","m","a","g","e"," ","u","s","i","n","g"," ","P","a","d","d","l","e","O","C","R",":"," ">>
E_LIBRARY == <<"l","i","b","r","a","r","y"," ","e","r","r","o","r">>

\* what page.get_text("text") gives for a page; None is a page without text
PageTexts == {PyNone, PyStr(<<>>), PyStr(<<" ","\n">>), PyStr(<<"a">>), PyStr(<<" ","b"," ","c","\n">>)}

\* one block of ocr.predict: with or without the key rec_texts
OcrBlocks ==
    {[has_rec |-> FALSE, rec_texts |-> <<>>],
     [has_rec |-> TRUE, rec_texts |-> <<>>],
     [has_rec |-> TRUE, rec_texts |-> <<<<" ">>>>],
     [has_rec |-> TRUE, rec_texts |-> <<<<"x">>>>],
     [has_rec |-> TRUE, rec_texts |-> <<<<"x">>, <<"y"," ","z">>>>]}

SeqsUpTo(S, n) == UNION {[1..k -> S] : k \in 0..n}

\* the file and the libraries as one call meets them
PdfWorlds ==
    [exists : BOOLEAN,          \* path.exists() in extract_text_from_pdf
     opens : BOOLEAN,           \* pymupdf.open and get_text do not raise
     pages : SeqsUpTo(PageTexts, MaxPages),
     image_exists : BOOLEAN,    \* path.exists() in extract_text_from_image
     ocr_raises : BOOLEAN,      \* PaddleOCR or predict raises
     blocks : SeqsUpTo(OcrBlocks, MaxOcrResults)]

\* lines 41-66: extract_text_from_image
ExtractTextFromImage(w) ==
    IF ~w.image_exists THEN Raised("FileNotFoundError", E_IMAGE_NOT_FOUND \o PDF_PATH)
    ELSE IF w.ocr_raises THEN Raised("RuntimeError", E_OCR_FAILED \o E_LIBRARY)
    ELSE LET full_text ==
                 Concat([i \in 1..Len(w.blocks) |->
                           IF w.blocks[i].has_rec
                           THEN Join(<<" ">>, w.blocks[i].rec_texts) \o <<"\n","\n">>
                           ELSE <<>>])
         IN  Returned(Strip(full_text))

\* line 24: page.get_text("text") or ""
PageText(p) == IF p.t = "NoneType" THEN <<>> ELSE p.v

\* the filter of line 29: p and p.strip()
Usable(p) == p # <<>> /\ Strip(p) # <<>>

RECURSIVE KeepUsable(_)
KeepUsable(xs) ==
    IF xs = <<>> THEN <<>>
    ELSE IF Usable(Head(xs)) THEN <<Head(xs)>> \o KeepUsable(Tail(xs))
    ELSE KeepUsable(Tail(xs))

\* line 29: "\n\n".join(p.strip() for p in pages_text if p and p.strip())
JoinPages(pages_text) ==
    LET kept == KeepUsable(pages_text)
    IN  Join(<<"\n","\n">>, [i \in 1..Len(kept) |-> Strip(kept[i])])

\* PdfTryBlock that lets the OCR error through instead of the ValueError
PdfTryBlock_OcrErrorThrough(w) ==
    IF ~w.opens THEN [ocr |-> FALSE, end |-> Raised("Exception", E_LIBRARY)]
    ELSE LET full_text == JoinPages([i \in 1..Len(w.pages) |-> PageText(w.pages[i])])
         IN  IF Strip(full_text) = <<>>
             THEN [ocr |-> TRUE, end |-> ExtractTextFromImage(w)]
             ELSE [ocr |-> FALSE, end |-> Returned(full_text)]

\* lines 19-37, the try block: whether OCR was called and how the block ends
PdfTryBlock(w) ==
    IF ~w.opens THEN [ocr |-> FALSE, end |-> Raised("Exception", E_LIBRARY)]
    ELSE LET full_text == JoinPages([i \in 1..Len(w.pages) |-> PageText(w.pages[i])])
         IN  IF Strip(full_text) = <<>>
             THEN LET image == ExtractTextFromImage(w)
                  IN  [ocr |-> TRUE,
                       end |-> IF image.kind = "raise"
                               THEN Raised("ValueError", E_NO_TEXT)
                               ELSE image]
             ELSE [ocr |-> FALSE, end |-> Returned(full_text)]

\* lines 15-39: extract_text_from_pdf
ExtractTextFromPdf(w) ==
    IF ~w.exists
    THEN [ocr |-> FALSE, end |-> Raised("FileNotFoundError", E_PDF_NOT_FOUND \o PDF_PATH)]
    ELSE LET t == PdfTryBlock(w)
         IN  [ocr |-> t.ocr,
              end |-> IF t.end.kind = "raise"
                      THEN Raised("RuntimeError", E_PDF_FAILED \o t.end.msg)
                      ELSE t.end]

NoWorld == [exists |-> FALSE, opens |-> FALSE, pages |-> <<>>, image_exists |-> FALSE,
            ocr_raises |-> FALSE, blocks |-> <<>>]

\* one call of extract_text_from_pdf
ExtractPdf ==
    /\ ppc = "idle"
    /\ \E w \in PdfWorlds :
         /\ pdf' = w
         /\ ocr_called' = ExtractTextFromPdf(w).ocr
         /\ pdf_outcome' = ExtractTextFromPdf(w).end
    /\ ppc' = "done"
    /\ UNCHANGED <<avars, appvars>>

\* the caller extracts another file
ExtractAgain ==
    /\ ppc = "done"
    /\ ppc' = "idle"
    /\ pdf' = NoWorld
    /\ ocr_called' = FALSE
    /\ pdf_outcome' = NotStarted
    /\ UNCHANGED <<avars, appvars>>

ParserInit ==
    /\ ppc = "idle"
    /\ pdf = NoWorld
    /\ ocr_called = FALSE
    /\ pdf_outcome = NotStarted

----------------------------------------------------------------------------
(* src/app.py: the Streamlit script.  Streamlit runs the script from top   *)
(* to bottom once per user interaction, one run at a time in each browser  *)
(* session and the sessions side by side in one process, so that every     *)
(* session resolves the relative path temp_contract.<ext> in the same      *)
(* working directory.                                                      *)

\* the browser sessions
Sessions == {"A", "B"}

\* extensions of uploaded files, from the type list of st.file_uploader
Exts == {"pdf", "png"}

\* what is found at a path: nothing, a file just created or truncated, the
\* bytes one session uploaded, or bytes of two uploads written over each other
Absent == [kind |-> "absent", by |-> "nobody"]
Empty == [kind |-> "empty", by |-> "nobody"]
Mixed == [kind |-> "mixed", by |-> "nobody"]
Data(s) == [kind |-> "data", by |-> s]

\* a session with no run in progress
Ended(upload, how) ==
    [pc |-> "ended", uploaded_file |-> upload, analyze_btn |-> FALSE,
     api_key |-> FALSE, linked |-> FALSE, read |-> Absent,
     contract_text |-> "unset", ending |-> how]

AppInit ==
    /\ fs = [e \in Exts |-> Absent]
    /\ sess = [s \in Sessions |-> Ended("none", "none")]

\* temp_path of the run of session s
temp_path(s) == sess[s].uploaded_file

\* lines 10-78: a user interaction starts a run of the script, which reads
\* the sidebar and the uploader; the button can only have been clicked when
\* a file is uploaded
Rerun(s) ==
    /\ sess[s].pc = "ended"
    /\ \E upload \in Exts \cup {"none"}, btn \in BOOLEAN, key \in BOOLEAN :
         /\ (upload = "none") => (~btn /\ ~key)
         /\ sess' = [sess EXCEPT ![s] =
                [pc |-> "script", uploaded_file |-> upload, analyze_btn |-> btn,
                 api_key |-> key, linked |-> FALSE, read |-> Absent,
                 contract_text |-> "unset", ending |-> "none"]]
    /\ UNCHANGED fs
    /\ UNCHANGED <<avars, pvars>>

\* lines 80, 247-310: nothing uploaded, the run shows the guide and ends
ShowGuide(s) ==
    /\ sess[s].pc = "script"
    /\ sess[s].uploaded_file = "none"
    /\ sess' = [sess EXCEPT ![s] = Ended("none", "complete")]
    /\ UNCHANGED fs
    /\ UNCHANGED <<avars, pvars>>

\* lines 80-84: open(temp_path, "wb") creates the file or truncates it
OpenTemp(s) ==
    /\ sess[s].pc = "script"
    /\ sess[s].uploaded_file # "none"
    /\ fs' = [fs EXCEPT ![temp_path(s)] = Empty]
    /\ sess' = [sess EXCEPT ![s].pc = "opened", ![s].linked = TRUE]
    /\ UNCHANGED <<avars, pvars>>

\* what a write from offset 0 leaves in a file that held c
Written(s, c) ==
    IF c.kind \in {"data", "mixed"} /\ c # Data(s)
    THEN {Data(s), Mixed}
    ELSE {Data(s)}

\* line 85: f.write(uploaded_file.getbuffer()) and the close of the file; the
\* bytes go to the file that was opened, which the path no longer names once
\* it was unlinked
WriteTemp(s) ==
    /\ sess[s].pc = "opened"
    /\ IF sess[s].linked
       THEN \E c \in Written(s, fs[temp_path(s)]) :
              fs' = [fs EXCEPT ![temp_path(s)] = c]
       ELSE UNCHANGED fs
    /\ sess' = [sess EXCEPT ![s].pc = "uploaded", ![s].linked = FALSE]
    /\ UNCHANGED <<avars, pvars>>

\* lines 87-100: the button was not clicked in this run
NoClick(s) ==
    /\ sess[s].pc = "uploaded"
    /\ ~sess[s].analyze_btn
    /\ sess' = [sess EXCEPT ![s].pc = "cleanup"]
    /\ UNCHANGED fs
    /\ UNCHANGED <<avars, pvars>>

\* lines 100-103: clicked without an API key
MissingKey(s) ==
    /\ sess[s].pc = "uploaded"
    /\ sess[s].analyze_btn /\ ~sess[s].api_key
    /\ sess' = [sess EXCEPT ![s].pc = "cleanup"]
    /\ UNCHANGED fs
    /\ UNCHANGED <<avars, pvars>>

\* what extract_text_from_pdf can give for a file that holds c: "None" is an
\* exception, caught on line 123
Extracted(c) ==
    IF c.kind \in {"absent", "empty"}
    THEN {"None"}
    ELSE {"text", "empty", "None"}

\* lines 104-125: contract_text = extract_text_from_pdf(temp_path), or None
\* when it raises
Extract(s) ==
    /\ sess[s].pc = "uploaded"
    /\ sess[s].analyze_btn /\ sess[s].api_key
    /\ \E t \in Extracted(fs[temp_path(s)]) :
         sess' = [sess EXCEPT ![s].pc = "extracted",
                              ![s].read = fs[temp_path(s)],
                              ![s].contract_text = t]
    /\ UNCHANGED fs
    /\ UNCHANGED <<avars, pvars>>

\* line 128: no text, no analysis
SkipAnalysis(s) ==
    /\ sess[s].pc = "extracted"
    /\ sess[s].contract_text # "text"
    /\ sess' = [sess EXCEPT ![s].pc = "cleanup"]
    /\ UNCHANGED fs
    /\ UNCHANGED <<avars, pvars>>

\* lines 128-145, 232-233: the analysis is called; it returns or its
\* exception is caught
Analyze(s) ==
    /\ sess[s].pc = "extracted"
    /\ sess[s].contract_text = "text"
    /\ sess' = [sess EXCEPT ![s].pc = "display"]
    /\ UNCHANGED fs
    /\ UNCHANGED <<avars, pvars>>

\* lines 147-241: the results or the error are shown
Display(s) ==
    /\ sess[s].pc = "display"
    /\ sess' = [sess EXCEPT ![s].pc = "cleanup"]
    /\ UNCHANGED fs
    /\ UNCHANGED <<avars, pvars>>

\* lines 243-244: if temp_path.exists()
CleanupCheck(s) ==
    /\ sess[s].pc = "cleanup"
    /\ sess' = [sess EXCEPT ![s] =
           IF fs[temp_path(s)] # Absent
           THEN [sess[s] EXCEPT !.pc = "unlink"]
           ELSE Ended(temp_path(s), "complete")]
    /\ UNCHANGED fs
    /\ UNCHANGED <<avars, pvars>>

\* line 245: temp_path.unlink(), which raises when the file is gone by now
Unlink(s) ==
    /\ sess[s].pc = "unlink"
    /\ fs' = [fs EXCEPT ![temp_path(s)] = Absent]
    /\ sess' = [t \in Sessions |->
           IF t = s
           THEN Ended(temp_path(s),
                      IF fs[temp_path(s)] # Absent THEN "complete" ELSE "raised")
           ELSE IF sess[t].pc = "opened" /\ temp_path(t) = temp_path(s)
                THEN [sess[t] EXCEPT !.linked = FALSE]
                ELSE sess[t]]
    /\ UNCHANGED <<avars, pvars>>

\* lines 87-241: a new interaction of the user while the run is under way;
\* the st.* call the run makes next raises Streamlit's rerun exception, which
\* is no Exception and ends the run where it is
Interrupt(s) ==
    /\ sess[s].pc \in {"uploaded", "extracted", "display"}
    /\ sess' = [sess EXCEPT ![s] = Ended(temp_path(s), "interrupted")]
    /\ UNCHANGED fs
    /\ UNCHANGED <<avars, pvars>>

\* one step of the run of session s
AppRun(s) ==
    \/ Rerun(s) \/ ShowGuide(s) \/ OpenTemp(s) \/ WriteTemp(s)
    \/ NoClick(s) \/ MissingKey(s) \/ Extract(s) \/ SkipAnalysis(s)
    \/ Analyze(s) \/ Display(s) \/ CleanupCheck(s) \/ Unlink(s)
    \/ Interrupt(s)

----------------------------------------------------------------------------
(* Specifications.                                                         *)

Init == AnalyzerInit /\ ParserInit /\ AppInit

Next == NewClient \/ NewClientRaises \/ GenerateContent \/ HandleResponse \/ Reinvoke

\* invocations of analyze_contract_with_gemini
Spec == Init /\ [][Next]_vars

ParserNext == ExtractPdf \/ ExtractAgain

\* calls of extract_text_from_pdf
SpecParser == Init /\ [][ParserNext]_vars

SoloNext == AppRun("A")

\* runs of app.py in one session
SpecAppSolo == Init /\ [][SoloNext]_vars

AppNext == \E s \in Sessions : AppRun(s)

\* runs of app.py in two sessions side by side
SpecApp == Init /\ [][AppNext]_vars

----------------------------------------------------------------------------
(* Vocabulary of the properties.                                           *)

\* the invocation has returned or raised
Done == pc = "done"

\* the invocation ended after handling a response that was valid JSON
AnsweredJson == Done /\ mock.kind \in {"json", "odd"}

\* the ContractRisk values the well-formed entries stand for, by index in Entries
Expected == <<R_PLAIN, R_EXTRA>>
AllWellFormed(ix) == \A i \in 1..Len(ix) : ix[i] \in 1..Len(Expected)
ExpectedRisks(ix) == [i \in 1..Len(ix) |-> Expected[ix[i]]]

\* a mapping with the four string fields
HasFourStrings(e) ==
    /\ e.t = "dict"
    /\ \A f \in {K_risk_type, K_clause_text, K_explanation, K_remediation_suggestion} :
         \E i \in 1..Len(e.v) : e.v[i].k = f /\ e.v[i].val.t = "str"

\* a value ContractAnalysys(**x) accepts
Constructible(x) ==
    /\ x.t = "dict"
    /\ \E i \in 1..Len(x.v) :
         /\ x.v[i].k = K_risks
         /\ x.v[i].val.t = "list"
         /\ \A j \in 1..Len(x.v[i].val.v) : HasFourStrings(x.v[i].val.v[j])

\* the call returned exactly one finding
OneFinding == outcome.kind = "return" /\ Len(outcome.value.risks) = 1

\* a mapping with a single key whose value is a mapping that holds 'risks'
IsEnvelope(x) ==
    /\ x.t = "dict"
    /\ Len(x.v) = 1
    /\ x.v[1].val.t = "dict"
    /\ \E i \in 1..Len(x.v[1].val.v) : x.v[1].val.v[i].k = K_risks

InnerMapping(x) == x.v[1].val
InnerRisks(x) ==
    LET d == InnerMapping(x) IN d.v[CHOOSE i \in 1..Len(d.v) : d.v[i].k = K_risks].val

OnlyRisks(L) == PyDict(<<Item(K_risks, L)>>)

\* the mock whose response is the payload alone, without fences or padding
Unfenced(m) == [m EXCEPT !.wrap = "bare", !.text = Dumps(Sent(m))]

\* the mock that sends the same risks list as the only key of the root object
Unsiblinged(m) ==
    [m EXCEPT !.shape = "risks", !.text = Wrap(m.wrap, Dumps(Payload("risks", m.risks)))]

----------------------------------------------------------------------------
(* Properties of analyze_contract_with_gemini.                             *)

\* C1: analyze_contract_with_gemini never raises: whatever client construction,
\* the remote call, cleaning, parsing, normalization and construction do, the
\* invocation ends by returning a ContractAnalysys.
C1_NeverRaises == Done => outcome.kind = "return"

\* C2: a response that is a bare JSON array of well-formed findings is returned
\* as those findings, in order, and not as an error finding.
C2_BareArrayReturned ==
    (Done /\ mock.kind = "json" /\ mock.shape = "array" /\ AllWellFormed(mock.risks))
        => outcome = Returned(ContractAnalysys(ExpectedRisks(mock.risks)))

\* C3: whenever the response parses as JSON but the normalized value cannot be
\* constructed into a ContractAnalysys, the result is exactly one
\* "System/Validation Error" finding whose explanation carries the fixed
\* schema-mismatch prefix followed by the original error detail.
C3_SchemaMismatchPrefixed ==
    (AnsweredJson /\ ~Constructible(final_data))
        => /\ OneFinding
           /\ outcome.value.risks[1].risk_type = RT_SYSTEM
           /\ outcome.value.risks[1].explanation
                = MSG_ERROR_DURING \o MSG_SCHEMA_PREFIX \o Construct(final_data).msg

\* C4: a well-formed {"risks": [...]} response is returned as a ContractAnalysys
\* whose risks are the entries of the list, same length, same order, field for
\* field, the empty list included.
C4_WellFormedRisksReturned ==
    (Done /\ mock.kind = "json" /\ mock.shape = "risks" /\ AllWellFormed(mock.risks))
        => outcome = Returned(ContractAnalysys(ExpectedRisks(mock.risks)))

\* C4 witness: two different findings came back in the order they were sent.
C4_Witness ==
    /\ Done /\ mock.kind = "json" /\ mock.shape = "risks" /\ mock.wrap = "bare"
    /\ mock.risks = <<2, 1>>
    /\ outcome = Returned(ContractAnalysys(<<R_EXTRA, R_PLAIN>>))

\* C5: when the parsed response is a mapping with exactly one key whose value is
\* a mapping holding 'risks' (whatever the key is called, 'risks' included), the
\* working value becomes the inner mapping, so what is constructed is the inner
\* risks alone, and well-formed inner findings are returned unchanged, in order.
C5_EnvelopeUnwrapped ==
    (AnsweredJson /\ IsEnvelope(Sent(mock)))
        => LET inner == InnerRisks(Sent(mock))
           IN  /\ inner.t = "list" => final_data = OnlyRisks(inner)
               /\ inner.t # "list" => final_data = InnerMapping(Sent(mock))
               /\ (mock.kind = "json" /\ AllWellFormed(mock.risks))
                    => outcome = Returned(ContractAnalysys(ExpectedRisks(mock.risks)))

\* C5 witness: an envelope whose key is itself 'risks' gave back its two findings.
C5_Witness ==
    /\ Done /\ mock.kind = "json" /\ mock.shape = "envelope_risks"
    /\ mock.risks = <<1, 2>>
    /\ outcome = Returned(ContractAnalysys(<<R_PLAIN, R_EXTRA>>))

\* C6: when the working mapping holds 'risks' bound to a list next to sibling
\* keys, what is passed to ContractAnalysys has the single key 'risks' bound to
\* that list, and the result is the one the same response without the siblings
\* gives: the findings only.
C6_SiblingsDiscarded ==
    (Done /\ mock.kind = "json" /\ mock.shape \in {"sibling", "envelope_sibling"})
        => /\ final_data = OnlyRisks(ListOf(mock.risks))
           /\ outcome = TryStatement(Unsiblinged(mock)).end
           /\ AllWellFormed(mock.risks)
                => outcome = Returned(ContractAnalysys(ExpectedRisks(mock.risks)))

\* C6 witness: a response with keys before and after 'risks' gave back its finding.
C6_Witness ==
    /\ Done /\ mock.kind = "json" /\ mock.shape = "sibling" /\ mock.risks = <<1>>
    /\ Len(Sent(mock).v) = 3
    /\ final_data = OnlyRisks(PyList(<<F_PLAIN>>))
    /\ outcome = Returned(ContractAnalysys(<<R_PLAIN>>))

\* C7: when the cleaned response text is not JSON, the result is exactly one
\* finding of type "Analysis Error (JSON Decode)" whose explanation contains
\* "Failed to analyze LLM response", never the "System/Validation Error" finding.
C7_DecodeErrorFinding ==
    (Done /\ mock.kind = "broken")
        => /\ OneFinding
           /\ outcome.value.risks[1].risk_type = RT_JSON_DECODE
           /\ outcome.value.risks[1].risk_type # RT_SYSTEM
           /\ Contains(outcome.value.risks[1].explanation, MSG_FAILED_PHRASE)

\* C7 witness: the text of test_analyze_contract_invalid_json was answered.
C7_Witness ==
    /\ Done /\ mock.kind = "broken"
    /\ mock.text = <<"E","R","R","O","R",":"," ","T","h","e"," ","m","o","d","e","l"," ","f","a","i","l","e","d"," ","t","o"," ","g","e","n","e","r","a","t","e"," ","J","S","O","N"," ","o","u","t","p","u","t",".">>
    /\ outcome.kind = "return"
    /\ outcome.value.risks[1].risk_type = RT_JSON_DECODE

\* C8: when generate_content raises an exception whose message contains
\* "API key not valid" or "UNAUTHENTICATED", the result is exactly one
\* "System/Validation Error" finding whose explanation is the fixed credential
\* message and holds nothing of the provider message, also when the message
\* matches the schema-validation marker as well.
C8_CredentialMessage ==
    (/\ Done /\ mock.kind = "raise" /\ mock.cls # "JSONDecodeError"
     /\ \E mark \in {MARK_API_KEY, MARK_UNAUTHENTICATED} : Contains(mock.msg, mark))
        => /\ outcome = Returned(ContractAnalysys(<<ContractRisk(
                            RT_SYSTEM, MSG_NA, MSG_ERROR_DURING \o MSG_INVALID_KEY,
                            MSG_VERIFY)>>))
           /\ ~Contains(outcome.value.risks[1].explanation, mock.msg)
           /\ \A mark \in {MARK_API_KEY, MARK_UNAUTHENTICATED, MARK_VALIDATION} :
                ~Contains(outcome.value.risks[1].explanation, mark)

\* C8 witness: a provider message matching both markers got the credential message.
C8_Witness ==
    /\ Done /\ mock.kind = "raise"
    /\ Contains(mock.msg, MARK_UNAUTHENTICATED) /\ Contains(mock.msg, MARK_VALIDATION)
    /\ OneFinding
    /\ outcome.value.risks[1].explanation = MSG_ERROR_DURING \o MSG_INVALID_KEY

\* C9: fence stripping precedes parsing and is transparent: a JSON payload inside
\* triple-backtick fences, with or without the json tag and with whitespace
\* around, gives the result the payload alone gives.
C9_FencesTransparent ==
    (AnsweredJson /\ mock.wrap # "bare")
        => /\ response_text = Dumps(Sent(mock))
           /\ outcome = TryStatement(Unfenced(mock)).end

\* C9 witness: a padded, tagged fence around a risks object gave back its findings.
C9_Witness ==
    /\ Done /\ mock.kind = "json" /\ mock.wrap = "fence_tight" /\ mock.shape = "risks"
    /\ mock.risks = <<1, 2>>
    /\ StartsWith(Strip(mock.text), FENCE_JSON)
    /\ outcome = Returned(ContractAnalysys(<<R_PLAIN, R_EXTRA>>))

Prefix(s, n) == [i \in 1..(IF Len(s) < n THEN Len(s) ELSE n) |-> s[i]]

\* C12: on a JSON parse failure clause_text embeds a prefix of the raw response
\* as received from the remote model: at most 100 characters, starting at the
\* first character of the raw response.
C12_RawExcerpt ==
    (Done /\ mock.kind = "broken")
        => /\ OneFinding
           /\ outcome.value.risks[1].clause_text
                = MSG_RAW_START \o Prefix(mock.text, RawExcerptLen) \o MSG_DOTS

\* a response was received from generate_content
ResponseReceived == Done /\ mock.kind \in {"json", "odd", "broken", "no_text"}

\* C15: the explanation "Invalid or missing Google AI API key." is given only
\* when the remote call itself failed: once a response was received, no failure
\* of reading, normalizing or validating it is reported as a credential problem.
C15_CredentialOnlyForRemoteFailure ==
    ResponseReceived
        => \A i \in 1..Len(outcome.value.risks) :
             ~Contains(outcome.value.risks[i].explanation, MSG_INVALID_KEY)

----------------------------------------------------------------------------
(* Properties of extract_text_from_pdf.                                    *)

PdfDone == ppc = "done"

Blank(s) == \A i \in 1..Len(s) : s[i] \in {" ", "\n", "\t", "\r"}

\* the file was read and its native text layer holds no non-whitespace text
NativeTextBlank ==
    /\ pdf.exists /\ pdf.opens
    /\ \A i \in 1..Len(pdf.pages) : pdf.pages[i].t = "NoneType" \/ Blank(pdf.pages[i].v)

\* extract_text_from_image raises
OcrRaises == ~pdf.image_exists \/ pdf.ocr_raises

\* extract_text_from_image returns the empty text
OcrReturnsEmpty ==
    /\ ~OcrRaises
    /\ \A i \in 1..Len(pdf.blocks) :
         pdf.blocks[i].has_rec =>
            \A j \in 1..Len(pdf.blocks[i].rec_texts) : Blank(pdf.blocks[i].rec_texts[j])

NoTextFound ==
    pdf_outcome.kind = "raise" /\ Contains(pdf_outcome.msg, E_NO_TEXT)

\* C10 as stated: OCR is called exactly when the native text layer yields no
\* non-whitespace text, and when OCR yields nothing either (it raises or returns
\* empty text) the call fails with the no-text-found error, never returning "".
C10_FallbackOrNoText ==
    PdfDone => /\ ocr_called <=> NativeTextBlank
               /\ (ocr_called /\ (OcrRaises \/ OcrReturnsEmpty)) => NoTextFound

\* C10 amended: OCR is called exactly when the native text layer yields no
\* non-whitespace text; when OCR raises, the call fails with a RuntimeError
\* whose message ends in the no-text-found message; when OCR returns empty
\* text, the call returns the empty string.
C10_FallbackRaisesOrEmpty ==
    PdfDone => /\ ocr_called <=> NativeTextBlank
               /\ (ocr_called /\ OcrRaises)
                    => pdf_outcome = Raised("RuntimeError", E_PDF_FAILED \o E_NO_TEXT)
               /\ (ocr_called /\ OcrReturnsEmpty) => pdf_outcome = Returned(<<>>)

\* C10 witness: a PDF of blank pages whose OCR raised ended in the error.
C10_Witness ==
    /\ PdfDone /\ ocr_called /\ pdf.ocr_raises /\ pdf.image_exists
    /\ Len(pdf.pages) = 2 /\ pdf.pages[1] = PyStr(<<" ","\n">>)
    /\ NoTextFound

----------------------------------------------------------------------------
(* Properties of the app.py script.                                        *)

\* the run of session s is over and a file was uploaded in it
RunOver(s) == sess[s].pc = "ended" /\ sess[s].uploaded_file # "none"

\* C13: after any run of the script in which a file was uploaded, whether
\* extraction or analysis succeeded, failed, was skipped for a missing API key
\* or the run was interrupted by a new user interaction, temp_contract.<ext>
\* no longer exists.
C13_TempFileRemoved ==
    \A s \in Sessions : RunOver(s) => fs[sess[s].uploaded_file] = Absent

\* C14: under any interleaving of two sessions, the extract_text_from_pdf call
\* of each session reads the bytes this session itself wrote to its temp path:
\* never another session's document, never a file that is gone.
C14_ReadsOwnBytes ==
    \A s \in Sessions : sess[s].pc = "extracted" => sess[s].read = Data(s)

====
